---------------------------- MODULE Spec2Model ----------------------------
(***************************************************************************)
(* bfcomp: parser, interpreter and x86-64 JIT lowering of src/src/lib.rs,  *)
(* driven as in src/src/main.rs (parse, then one of the two back ends).    *)
(* Indices into Vec values are 0-based as in the source; At/Put translate. *)
(***************************************************************************)
EXTENDS Integers, Sequences, FiniteSets, TLC

VARIABLES
    mode,                \* main.rs: "int" | "jit"; see AfterParse for the others
    phase,               \* position in the program: "parse" | "interp" | "compile" | "backpatch" | "load" | "native" | "done" | "halt"
    panic,               \* "" or the message of the panic that ended the process
    src,                 \* the source string (BFSourceCode.chars' underlying str)
    pos,                 \* number of chars the Chars iterator has consumed
    current_char,        \* parse_program: Option<char>, "None" for None
    instructions,        \* Vec<Instruction>
    jump_stack,          \* parse_program: Vec<usize>
    ip, mp, memory,      \* execute_with_interpreter locals
    stdin_data,          \* the bytes on the process's stdin
    stdin_pos,           \* bytes of stdin consumed by the interpreter run
    stdout,              \* bytes the interpreter run wrote to stdout
    i,                   \* jit_compile: loop index of the enumerate()
    byte_code,           \* jit_compile: Vec<u8>
    jump_addresses,      \* jit_compile: HashMap<usize, usize>
    backpatch_addresses, \* jit_compile: HashMap<usize, usize>
    backpatch_todo,      \* keys the backpatch loop's iterator has not yet yielded
    rip, rdi, rax, rsi, rdx, zf, stack,  \* native code: registers, zero flag, machine stack
    jit_memory,          \* the [u8; JIT_MEMORY_SIZE] tape, as the cells that differ from 0
    jit_stdin_pos,       \* bytes of stdin consumed by the native run
    jit_stdout           \* bytes the native run wrote to fd 1

vars == <<mode, phase, panic, src, pos, current_char, instructions, jump_stack,
          ip, mp, memory, stdin_data, stdin_pos, stdout,
          i, byte_code, jump_addresses, backpatch_addresses, backpatch_todo,
          rip, rdi, rax, rsi, rdx, zf, stack, jit_memory, jit_stdin_pos, jit_stdout>>

parseVars == <<src, pos, current_char, instructions, jump_stack>>
intVars == <<ip, mp, memory, stdin_pos, stdout>>
jitVars == <<i, byte_code, jump_addresses, backpatch_addresses, backpatch_todo>>
nativeVars == <<rip, rdi, rax, rsi, rdx, zf, stack, jit_memory, jit_stdin_pos, jit_stdout>>

-----------------------------------------------------------------------------
(* Bounds of the checked instances *)

MaxSrcLen == 4       \* SpecParse: every source of at most this many characters
MaxIntLen == 2       \* SpecInt and SpecRun: every source of at most this many characters
MaxJitLen == 4       \* SpecJit: every source of at most this many significant characters
MaxA == 3            \* move loops: a in 1..MaxA and near the wrap
MaxB == 2            \* move loops: b in 0..MaxB and near the wrap
MaxStdin == 1        \* stdin of at most this many bytes
MaxOut == 6          \* a run is followed until it has written this many bytes

-----------------------------------------------------------------------------
(* Program constants *)

JIT_MEMORY_SIZE == 10240
InitialMemoryLen == 64
CellModulus == 256
RunLimit == 256

-----------------------------------------------------------------------------
(* Vec helpers, 0-based *)

At(v, k) == v[k + 1]

Put(v, k, x) == [v EXCEPT ![k + 1] = x]

Repeat(s, n) == [k \in 1..(n * Len(s)) |-> s[((k - 1) % Len(s)) + 1]]

Last(v) == v[Len(v)]

Pop(v) == SubSeq(v, 1, Len(v) - 1)

MapGet(m, k) == m[k]

MapHas(m, k) == k \in DOMAIN m

MapInsert(m, k, x) == [y \in (DOMAIN m) \cup {k} |-> IF y = k THEN x ELSE m[y]]

EmptyMap == [y \in {} |-> 0]

-----------------------------------------------------------------------------
(* Instruction *)

Ins(op, arg) == [op |-> op, arg |-> arg]

Significant == {"+", "-", "<", ">", ",", ".", "[", "]"}

(* Iterator for BFSourceCode: the position of the next significant char    *)
(* after `p` consumed chars, or Len(s) + 1 when the chars run out.         *)
RECURSIVE NextIdx(_, _)
NextIdx(s, p) ==
    IF p >= Len(s) THEN Len(s) + 1
    ELSE IF s[p + 1] \in Significant THEN p + 1
    ELSE NextIdx(s, p + 1)

IterPos(s, p) == IF NextIdx(s, p) > Len(s) THEN Len(s) ELSE NextIdx(s, p)

IterChar(s, p) == IF NextIdx(s, p) > Len(s) THEN "None" ELSE s[NextIdx(s, p)]

(* The inner `while next_char == Some(c)` of parse_program, entered with   *)
(* count = 1 and `p` chars consumed: it stops at the first significant     *)
(* char that is not `c` (or at the end) and has counted every `c` before   *)
(* it.  Gives the final count, iterator position and next_char.            *)
RunStop(s, p, c) ==
    LET stops == {j \in (p + 1)..Len(s) : s[j] \in Significant /\ s[j] # c}
    IN  IF stops = {} THEN Len(s) + 1
        ELSE CHOOSE j \in stops : \A k \in stops : j <= k

RunScan(s, p, c) ==
    LET e == RunStop(s, p, c)
    IN  [count |-> 1 + Cardinality({k \in (p + 1)..(e - 1) : s[k] = c}),
         pos |-> IF e > Len(s) THEN Len(s) ELSE e,
         next_char |-> IF e > Len(s) THEN "None" ELSE s[e]]

OpOf(c) ==
    CASE c = "+" -> "Add"
      [] c = "-" -> "Sub"
      [] c = "<" -> "Left"
      [] c = ">" -> "Right"
      [] c = "," -> "Input"
      [] c = "." -> "Output"

(* An assert that lets a run of 256 through *)
CountFits_OffByOne(c, count) == c \in {"+", "-"} => count <= RunLimit

(* `assert!(count < 256)` guarding the `count as u8` of Add and Sub *)
CountFits(c, count) == c \in {"+", "-"} => count < RunLimit

(* `count as u8` for Add and Sub, the usize count for the others *)
Operand(c, count) == IF c \in {"+", "-"} THEN count % CellModulus ELSE count

Halt(msg) == phase' = "halt" /\ panic' = msg

-----------------------------------------------------------------------------
(* parse_program *)

ParseOpen ==
    /\ phase = "parse" /\ current_char = "["
    /\ jump_stack' = Append(jump_stack, Len(instructions))
    /\ instructions' = Append(instructions, Ins("JumpIfZero", 0))
    /\ current_char' = IterChar(src, pos)
    /\ pos' = IterPos(src, pos)
    /\ UNCHANGED <<mode, phase, panic, src, intVars, stdin_data, jitVars, nativeVars>>

(* pop + push + patch of the `]` arm *)
CloseBracket(ins, stk) ==
    Put(Append(ins, Ins("JumpIfNotZero", Last(stk) + 1)), Last(stk),
        Ins("JumpIfZero", Len(ins) + 1))

(* A `]` arm that skips a `]` it cannot match instead of failing *)
CloseArm_Skip ==
    IF jump_stack = <<>>
    THEN /\ current_char' = IterChar(src, pos)
         /\ pos' = IterPos(src, pos)
         /\ UNCHANGED <<phase, panic, src, instructions, jump_stack>>
    ELSE /\ instructions' = CloseBracket(instructions, jump_stack)
         /\ jump_stack' = Pop(jump_stack)
         /\ current_char' = IterChar(src, pos)
         /\ pos' = IterPos(src, pos)
         /\ UNCHANGED <<phase, panic, src>>

(* The `]` arm: `jump_stack.pop().expect(..)` panics on an empty stack *)
CloseArm ==
    IF jump_stack = <<>>
    THEN /\ Halt("Stack underflow at {current_char}")
         /\ UNCHANGED <<parseVars>>
    ELSE /\ instructions' = CloseBracket(instructions, jump_stack)
         /\ jump_stack' = Pop(jump_stack)
         /\ current_char' = IterChar(src, pos)
         /\ pos' = IterPos(src, pos)
         /\ UNCHANGED <<phase, panic, src>>

ParseClose ==
    /\ phase = "parse" /\ current_char = "]"
    /\ CloseArm
    /\ UNCHANGED <<mode, intVars, stdin_data, jitVars, nativeVars>>

ParseRun ==
    /\ phase = "parse" /\ current_char \in Significant \ {"[", "]"}
    /\ LET r == RunScan(src, pos, current_char) IN
       IF CountFits(current_char, r.count)
       THEN /\ instructions' = Append(instructions, Ins(OpOf(current_char), Operand(current_char, r.count)))
            /\ current_char' = r.next_char
            /\ pos' = r.pos
            /\ UNCHANGED <<phase, panic>>
       ELSE /\ Halt("assertion failed: count < 256")
            /\ pos' = r.pos
            /\ UNCHANGED <<instructions, current_char>>
    /\ UNCHANGED <<mode, src, jump_stack, intVars, stdin_data, jitVars, nativeVars>>

(* main.rs: `"jit" => execute_with_jit_compiler(), "int" =>                *)
(* execute_with_interpreter()`.  mode "parse" is parse_program alone,      *)
(* "compile" is parse_program and jit_compile alone, and "both" runs the   *)
(* interpreter and then the JIT on the same program and stdin.             *)
AfterParse(m) ==
    CASE m = "parse" -> "done"
      [] m \in {"jit", "compile"} -> "compile"
      [] OTHER -> "interp"

(* `if current_char.is_none() { break; }` and the return: the jump_stack is *)
(* dropped without being looked at.                                        *)
ParseEnd ==
    /\ phase = "parse" /\ current_char = "None"
    /\ phase' = AfterParse(mode)
    /\ UNCHANGED <<mode, panic, parseVars, intVars, stdin_data, jitVars, nativeVars>>

NextParse == ParseOpen \/ ParseClose \/ ParseRun \/ ParseEnd

-----------------------------------------------------------------------------
(* execute_with_interpreter *)

Fetch == At(instructions, ip)

Running(op) == phase = "interp" /\ ip < Len(instructions) /\ Fetch.op = op

(* `memory[mp]`: the Vec index is bounds-checked against memory.len() *)
InBounds(mem, m) == m < Len(mem)

IndexPanic == Halt("index out of bounds")

(* An add that saturates instead of wrapping *)
AddCell_Saturating(v, n) == IF v + n >= CellModulus THEN CellModulus - 1 ELSE v + n

(* u8::overflowing_add(..).0 and u8::overflowing_sub(..).0 *)
AddCell(v, n) == (v + n) % CellModulus

SubCell(v, n) == (v - n) % CellModulus

(* Vec::reserve(additional): capacity changes, len and contents do not *)
Reserve(mem, additional) == mem

(* `print!("{}", b as char)`: the char U+0000..U+00FF written as UTF-8 *)
PrintChar(b) == IF b < 128 THEN <<b>> ELSE <<192 + (b \div 64), 128 + (b % 64)>>

IntAdd ==
    /\ Running("Add")
    /\ IF InBounds(memory, mp)
       THEN /\ memory' = Put(memory, mp, AddCell(At(memory, mp), Fetch.arg))
            /\ ip' = ip + 1
            /\ UNCHANGED <<phase, panic>>
       ELSE IndexPanic /\ UNCHANGED <<memory, ip>>
    /\ UNCHANGED <<mode, parseVars, mp, stdin_data, stdin_pos, stdout, jitVars, nativeVars>>

IntSub ==
    /\ Running("Sub")
    /\ IF InBounds(memory, mp)
       THEN /\ memory' = Put(memory, mp, SubCell(At(memory, mp), Fetch.arg))
            /\ ip' = ip + 1
            /\ UNCHANGED <<phase, panic>>
       ELSE IndexPanic /\ UNCHANGED <<memory, ip>>
    /\ UNCHANGED <<mode, parseVars, mp, stdin_data, stdin_pos, stdout, jitVars, nativeVars>>

IntLeft ==
    /\ Running("Left")
    /\ IF mp >= Fetch.arg
       THEN /\ mp' = mp - Fetch.arg
            /\ ip' = ip + 1
            /\ UNCHANGED <<phase, panic>>
       ELSE Halt("assertion failed: mp >= count") /\ UNCHANGED <<mp, ip>>
    /\ UNCHANGED <<mode, parseVars, memory, stdin_data, stdin_pos, stdout, jitVars, nativeVars>>

IntRight ==
    /\ Running("Right")
    /\ mp' = mp + Fetch.arg
    /\ memory' = IF mp' >= Len(memory) THEN Reserve(memory, mp' + 1) ELSE memory
    /\ ip' = ip + 1
    /\ UNCHANGED <<mode, phase, panic, parseVars, stdin_data, stdin_pos, stdout, jitVars, nativeVars>>

(* The whole `for _ in 0..count` of the Input arm: each round reads one    *)
(* byte, panics when none is left, then stores it through memory[mp].      *)
IntInput ==
    /\ Running("Input")
    /\ LET avail == Len(stdin_data) - stdin_pos
           count == Fetch.arg
       IN  IF avail = 0
           THEN Halt("Error reading input") /\ UNCHANGED <<memory, stdin_pos, ip>>
           ELSE IF ~InBounds(memory, mp)
           THEN IndexPanic /\ stdin_pos' = stdin_pos + 1 /\ UNCHANGED <<memory, ip>>
           ELSE IF avail < count
           THEN /\ Halt("Error reading input")
                /\ stdin_pos' = Len(stdin_data)
                /\ memory' = Put(memory, mp, stdin_data[Len(stdin_data)])
                /\ UNCHANGED ip
           ELSE /\ stdin_pos' = stdin_pos + count
                /\ memory' = Put(memory, mp, stdin_data[stdin_pos + count])
                /\ ip' = ip + 1
                /\ UNCHANGED <<phase, panic>>
    /\ UNCHANGED <<mode, parseVars, mp, stdin_data, stdout, jitVars, nativeVars>>

IntOutput ==
    /\ Running("Output") /\ Len(stdout) < MaxOut
    /\ IF InBounds(memory, mp)
       THEN /\ stdout' = stdout \o Repeat(PrintChar(At(memory, mp)), Fetch.arg)
            /\ ip' = ip + 1
            /\ UNCHANGED <<phase, panic>>
       ELSE IndexPanic /\ UNCHANGED <<stdout, ip>>
    /\ UNCHANGED <<mode, parseVars, mp, memory, stdin_data, stdin_pos, jitVars, nativeVars>>

IntJumpIfZero ==
    /\ Running("JumpIfZero")
    /\ IF InBounds(memory, mp)
       THEN /\ ip' = IF At(memory, mp) = 0 THEN Fetch.arg ELSE ip + 1
            /\ UNCHANGED <<phase, panic>>
       ELSE IndexPanic /\ UNCHANGED ip
    /\ UNCHANGED <<mode, parseVars, mp, memory, stdin_data, stdin_pos, stdout, jitVars, nativeVars>>

IntJumpIfNotZero ==
    /\ Running("JumpIfNotZero")
    /\ IF InBounds(memory, mp)
       THEN /\ ip' = IF At(memory, mp) # 0 THEN Fetch.arg ELSE ip + 1
            /\ UNCHANGED <<phase, panic>>
       ELSE IndexPanic /\ UNCHANGED ip
    /\ UNCHANGED <<mode, parseVars, mp, memory, stdin_data, stdin_pos, stdout, jitVars, nativeVars>>

(* `while ip < self.instructions.len()` ends; main.rs goes on to exit *)
IntExit ==
    /\ phase = "interp" /\ ip >= Len(instructions)
    /\ phase' = IF mode = "both" THEN "compile" ELSE "done"
    /\ UNCHANGED <<mode, panic, parseVars, intVars, stdin_data, jitVars, nativeVars>>

NextInterp ==
    \/ IntAdd \/ IntSub \/ IntLeft \/ IntRight \/ IntInput \/ IntOutput
    \/ IntJumpIfZero \/ IntJumpIfNotZero \/ IntExit

-----------------------------------------------------------------------------
(* jit_compile *)

(* u32::to_le_bytes of `n as u32`, and the low four bytes of               *)
(* usize::to_le_bytes: the 32-bit two's complement of n, for |n| < 2^31    *)
(* (a wrapped difference is kept as the negative number it stands for).    *)
LeBytesNat(n) ==
    <<n % 256, (n \div 256) % 256, (n \div 65536) % 256, (n \div 16777216) % 256>>

LeBytes(n) ==
    IF n >= 0 THEN LeBytesNat(n)
    ELSE [k \in 1..4 |-> 255 - LeBytesNat(-n - 1)[k]]

AddCode(count) == <<\h80, \h07, count>>

SubCode(count) == <<\h80, \h2F, count>>

RightCode(count) == <<\h48, \h81, \hC7>> \o LeBytes(count)

LeftCode(count) == <<\h48, \h81, \hEF>> \o LeBytes(count)

(* An Output block that leaves rdi on the machine stack *)
OutputBlock_NoPop ==
    <<\h57,
      \h48, \hc7, \hc0, \h01, \h00, \h00, \h00,
      \h48, \h89, \hfe,
      \h48, \hc7, \hc7, \h01, \h00, \h00, \h00,
      \h48, \hc7, \hc2, \h01, \h00, \h00, \h00,
      \h0f, \h05>>

(* The vec! appended once per round of the Output arm's loop *)
OutputBlock ==
    <<\h57,
      \h48, \hc7, \hc0, \h01, \h00, \h00, \h00,
      \h48, \h89, \hfe,
      \h48, \hc7, \hc7, \h01, \h00, \h00, \h00,
      \h48, \hc7, \hc2, \h01, \h00, \h00, \h00,
      \h0f, \h05,
      \h5f>>

(* The vec! appended once per round of the Input arm's loop *)
InputBlock ==
    <<\h57,
      \h48, \hc7, \hc0, \h00, \h00, \h00, \h00,
      \h48, \h89, \hfe,
      \h48, \hc7, \hc7, \h00, \h00, \h00, \h00,
      \h48, \hc7, \hc2, \h01, \h00, \h00, \h00,
      \h0f, \h05,
      \h5f>>

TestCode == <<\h48, \h31, \hc0, \h8a, \h07, \h48, \h85, \hc0>>

JumpIfZeroCode == TestCode \o <<\h0f, \h84, \h00, \h00, \h00, \h00>>

(* `dst_address.overflowing_sub(current_address).0 as u32`, where          *)
(* current_address = byte_code.len() + code.len() + 6                      *)
JneOffset(dst_address, code_start) ==
    dst_address - (code_start + Len(TestCode) + 6)

JumpIfNotZeroCode(dst_address, code_start) ==
    TestCode \o <<\h0f, \h85>> \o LeBytes(JneOffset(dst_address, code_start))

Compiling(op) == phase = "compile" /\ i < Len(instructions) /\ At(instructions, i).op = op

(* `byte_code.append(&mut instruction_code)` and the next round *)
Emit(code) == byte_code' = byte_code \o code /\ i' = i + 1

CompileAdd ==
    /\ Compiling("Add")
    /\ Emit(AddCode(At(instructions, i).arg))
    /\ UNCHANGED <<mode, phase, panic, parseVars, intVars, stdin_data,
                   jump_addresses, backpatch_addresses, backpatch_todo, nativeVars>>

CompileSub ==
    /\ Compiling("Sub")
    /\ Emit(SubCode(At(instructions, i).arg))
    /\ UNCHANGED <<mode, phase, panic, parseVars, intVars, stdin_data,
                   jump_addresses, backpatch_addresses, backpatch_todo, nativeVars>>

CompileRight ==
    /\ Compiling("Right")
    /\ Emit(RightCode(At(instructions, i).arg))
    /\ UNCHANGED <<mode, phase, panic, parseVars, intVars, stdin_data,
                   jump_addresses, backpatch_addresses, backpatch_todo, nativeVars>>

CompileLeft ==
    /\ Compiling("Left")
    /\ Emit(LeftCode(At(instructions, i).arg))
    /\ UNCHANGED <<mode, phase, panic, parseVars, intVars, stdin_data,
                   jump_addresses, backpatch_addresses, backpatch_todo, nativeVars>>

CompileOutput ==
    /\ Compiling("Output")
    /\ Emit(Repeat(OutputBlock, At(instructions, i).arg))
    /\ UNCHANGED <<mode, phase, panic, parseVars, intVars, stdin_data,
                   jump_addresses, backpatch_addresses, backpatch_todo, nativeVars>>

CompileInput ==
    /\ Compiling("Input")
    /\ Emit(Repeat(InputBlock, At(instructions, i).arg))
    /\ UNCHANGED <<mode, phase, panic, parseVars, intVars, stdin_data,
                   jump_addresses, backpatch_addresses, backpatch_todo, nativeVars>>

CompileJumpIfZero ==
    /\ Compiling("JumpIfZero")
    /\ LET current_byte_address == Len(byte_code) + Len(JumpIfZeroCode) IN
       /\ jump_addresses' = MapInsert(jump_addresses, i + 1, current_byte_address)
       /\ backpatch_addresses' =
             MapInsert(backpatch_addresses, At(instructions, i).arg, current_byte_address - 4)
    /\ Emit(JumpIfZeroCode)
    /\ UNCHANGED <<mode, phase, panic, parseVars, intVars, stdin_data, backpatch_todo, nativeVars>>

CompileJumpIfNotZero ==
    /\ Compiling("JumpIfNotZero")
    /\ LET dest == At(instructions, i).arg IN
       IF MapHas(jump_addresses, dest)
       THEN LET code == JumpIfNotZeroCode(MapGet(jump_addresses, dest), Len(byte_code)) IN
            /\ jump_addresses' = MapInsert(jump_addresses, i + 1, Len(byte_code) + Len(code))
            /\ Emit(code)
            /\ UNCHANGED <<phase, panic>>
       ELSE /\ Halt("assertion failed: dst_address.is_some()")
            /\ UNCHANGED <<jump_addresses, byte_code, i>>
    /\ UNCHANGED <<mode, parseVars, intVars, stdin_data, backpatch_addresses, backpatch_todo, nativeVars>>

(* The enumerate() is exhausted; `backpatch_addresses.iter()` starts *)
CompileLoopEnd ==
    /\ phase = "compile" /\ i >= Len(instructions)
    /\ phase' = "backpatch"
    /\ backpatch_todo' = DOMAIN backpatch_addresses
    /\ UNCHANGED <<mode, panic, parseVars, intVars, stdin_data, i, byte_code,
                   jump_addresses, backpatch_addresses, nativeVars>>

(* A patch that measures the displacement from the patch site itself *)
PatchOffset_FromSite(dest_address, source_location) == dest_address - source_location

(* `dest_address - (source_location + 4)` *)
PatchOffset(dest_address, source_location) == dest_address - (source_location + 4)

Patch(code, source_location, offset) ==
    [k \in 1..Len(code) |->
        IF k - 1 \in source_location..(source_location + 3)
        THEN LeBytes(offset)[k - source_location]
        ELSE code[k]]

(* One round of the backpatch loop; a HashMap yields its entries in an     *)
(* unspecified order.                                                      *)
Backpatch ==
    /\ phase = "backpatch"
    /\ \E dest_instruction \in backpatch_todo :
          LET source_location == MapGet(backpatch_addresses, dest_instruction) IN
          IF ~MapHas(jump_addresses, dest_instruction)
          THEN /\ Halt("called Option::unwrap() on a None value")
               /\ UNCHANGED <<byte_code, backpatch_todo>>
          ELSE IF PatchOffset(MapGet(jump_addresses, dest_instruction), source_location) < 0
          THEN /\ Halt("attempt to subtract with overflow")
               /\ UNCHANGED <<byte_code, backpatch_todo>>
          ELSE /\ byte_code' = Patch(byte_code, source_location,
                      PatchOffset(MapGet(jump_addresses, dest_instruction), source_location))
               /\ backpatch_todo' = backpatch_todo \ {dest_instruction}
               /\ UNCHANGED <<phase, panic>>
    /\ UNCHANGED <<mode, parseVars, intVars, stdin_data, i, jump_addresses,
                   backpatch_addresses, nativeVars>>

(* `byte_code.push(0xC3)` and the return *)
CompileRet ==
    /\ phase = "backpatch" /\ backpatch_todo = {}
    /\ byte_code' = Append(byte_code, \hC3)
    /\ phase' = IF mode = "compile" THEN "done" ELSE "load"
    /\ UNCHANGED <<mode, panic, parseVars, intVars, stdin_data, i, jump_addresses,
                   backpatch_addresses, backpatch_todo, nativeVars>>

NextCompile ==
    \/ CompileAdd \/ CompileSub \/ CompileRight \/ CompileLeft
    \/ CompileOutput \/ CompileInput \/ CompileJumpIfZero \/ CompileJumpIfNotZero
    \/ CompileLoopEnd \/ Backpatch \/ CompileRet

-----------------------------------------------------------------------------
(* make_executable and execute: the emitted bytes run by an x86-64 CPU.    *)
(* Addresses are offsets from the tape's first byte, which is what rdi     *)
(* holds on entry.                                                         *)

(* The x86-64 encodings the comments of jit_compile name *)
Enc_add_byte_rdi == <<\h80, \h07>>
Enc_sub_byte_rdi == <<\h80, \h2F>>
Enc_add_rdi == <<\h48, \h81, \hC7>>
Enc_sub_rdi == <<\h48, \h81, \hEF>>
Enc_push_rdi == <<\h57>>
Enc_pop_rdi == <<\h5f>>
Enc_mov_rax == <<\h48, \hc7, \hc0>>
Enc_mov_rdi == <<\h48, \hc7, \hc7>>
Enc_mov_rdx == <<\h48, \hc7, \hc2>>
Enc_mov_rsi_rdi == <<\h48, \h89, \hfe>>
Enc_syscall == <<\h0f, \h05>>
Enc_xor_rax_rax == <<\h48, \h31, \hc0>>
Enc_mov_al_rdi == <<\h8a, \h07>>
Enc_test_rax_rax == <<\h48, \h85, \hc0>>
Enc_je == <<\h0f, \h84>>
Enc_jne == <<\h0f, \h85>>
Enc_ret == <<\hC3>>

(* The signed 32-bit little-endian value at offset `at` of `code` *)
Le32(code, at) ==
    IF code[at + 4] < 128
    THEN code[at + 1] + 256 * code[at + 2] + 65536 * code[at + 3] + 16777216 * code[at + 4]
    ELSE -1 - ((255 - code[at + 1]) + 256 * (255 - code[at + 2])
               + 65536 * (255 - code[at + 3]) + 16777216 * (255 - code[at + 4]))

(* The CPU is about to run the instruction whose encoding starts with enc *)
Decodes(enc) ==
    /\ phase = "native"
    /\ rip + Len(enc) <= Len(byte_code)
    /\ SubSeq(byte_code, rip + 1, rip + Len(enc)) = enc

InTape(a) == a >= 0 /\ a < JIT_MEMORY_SIZE

Cell(a) == IF a \in DOMAIN jit_memory THEN jit_memory[a] ELSE 0

(* `BFExecutable::make_executable`: map_anon or make_exec may fail, then   *)
(* `(self.executable)(memory)` enters the code with rdi = the zeroed tape  *)
Load ==
    /\ phase = "load"
    /\ \E mapped \in BOOLEAN :
          IF mapped
          THEN /\ phase' = "native"
               /\ rip' = 0 /\ rdi' = 0 /\ stack' = <<>> /\ jit_memory' = EmptyMap
               /\ jit_stdin_pos' = 0 /\ jit_stdout' = <<>>
               /\ UNCHANGED <<panic, rax, rsi, rdx, zf>>
          ELSE /\ Halt("Error making compiled code executable")
               /\ UNCHANGED nativeVars
    /\ UNCHANGED <<mode, parseVars, intVars, stdin_data, jitVars>>

NatFrame == <<mode, phase, panic, parseVars, intVars, stdin_data, jitVars>>

NatAddByte ==
    /\ Decodes(Enc_add_byte_rdi) /\ InTape(rdi)
    /\ LET v == (Cell(rdi) + byte_code[rip + 3]) % 256 IN
       jit_memory' = MapInsert(jit_memory, rdi, v) /\ zf' = (v = 0)
    /\ rip' = rip + 3
    /\ UNCHANGED <<NatFrame, rdi, rax, rsi, rdx, stack, jit_stdin_pos, jit_stdout>>

NatSubByte ==
    /\ Decodes(Enc_sub_byte_rdi) /\ InTape(rdi)
    /\ LET v == (Cell(rdi) - byte_code[rip + 3]) % 256 IN
       jit_memory' = MapInsert(jit_memory, rdi, v) /\ zf' = (v = 0)
    /\ rip' = rip + 3
    /\ UNCHANGED <<NatFrame, rdi, rax, rsi, rdx, stack, jit_stdin_pos, jit_stdout>>

NatAddRdi ==
    /\ Decodes(Enc_add_rdi)
    /\ rdi' = rdi + Le32(byte_code, rip + 3)
    /\ zf' = FALSE
    /\ rip' = rip + 7
    /\ UNCHANGED <<NatFrame, rax, rsi, rdx, stack, jit_memory, jit_stdin_pos, jit_stdout>>

NatSubRdi ==
    /\ Decodes(Enc_sub_rdi)
    /\ rdi' = rdi - Le32(byte_code, rip + 3)
    /\ zf' = FALSE
    /\ rip' = rip + 7
    /\ UNCHANGED <<NatFrame, rax, rsi, rdx, stack, jit_memory, jit_stdin_pos, jit_stdout>>

NatPushRdi ==
    /\ Decodes(Enc_push_rdi)
    /\ stack' = Append(stack, rdi)
    /\ rip' = rip + 1
    /\ UNCHANGED <<NatFrame, rdi, rax, rsi, rdx, zf, jit_memory, jit_stdin_pos, jit_stdout>>

NatPopRdi ==
    /\ Decodes(Enc_pop_rdi) /\ stack # <<>>
    /\ rdi' = Last(stack)
    /\ stack' = Pop(stack)
    /\ rip' = rip + 1
    /\ UNCHANGED <<NatFrame, rax, rsi, rdx, zf, jit_memory, jit_stdin_pos, jit_stdout>>

NatMovRax ==
    /\ Decodes(Enc_mov_rax)
    /\ rax' = Le32(byte_code, rip + 3)
    /\ rip' = rip + 7
    /\ UNCHANGED <<NatFrame, rdi, rsi, rdx, zf, stack, jit_memory, jit_stdin_pos, jit_stdout>>

NatMovRdi ==
    /\ Decodes(Enc_mov_rdi)
    /\ rdi' = Le32(byte_code, rip + 3)
    /\ rip' = rip + 7
    /\ UNCHANGED <<NatFrame, rax, rsi, rdx, zf, stack, jit_memory, jit_stdin_pos, jit_stdout>>

NatMovRdx ==
    /\ Decodes(Enc_mov_rdx)
    /\ rdx' = Le32(byte_code, rip + 3)
    /\ rip' = rip + 7
    /\ UNCHANGED <<NatFrame, rdi, rax, rsi, zf, stack, jit_memory, jit_stdin_pos, jit_stdout>>

NatMovRsiRdi ==
    /\ Decodes(Enc_mov_rsi_rdi)
    /\ rsi' = rdi
    /\ rip' = rip + 3
    /\ UNCHANGED <<NatFrame, rdi, rax, rdx, zf, stack, jit_memory, jit_stdin_pos, jit_stdout>>

(* Linux read(0, rsi, 1): one byte into the cell, or 0 at end of input *)
NatSyscallRead ==
    /\ Decodes(Enc_syscall) /\ rax = 0 /\ rdi = 0 /\ rdx = 1 /\ InTape(rsi)
    /\ IF jit_stdin_pos < Len(stdin_data)
       THEN /\ jit_memory' = MapInsert(jit_memory, rsi, stdin_data[jit_stdin_pos + 1])
            /\ jit_stdin_pos' = jit_stdin_pos + 1
            /\ rax' = 1
       ELSE /\ rax' = 0
            /\ UNCHANGED <<jit_memory, jit_stdin_pos>>
    /\ rip' = rip + 2
    /\ UNCHANGED <<NatFrame, rdi, rsi, rdx, zf, stack, jit_stdout>>

(* Linux write(1, rsi, 1): the cell's byte as it is *)
NatSyscallWrite ==
    /\ Decodes(Enc_syscall) /\ rax = 1 /\ rdi = 1 /\ rdx = 1 /\ InTape(rsi)
    /\ Len(jit_stdout) < MaxOut
    /\ jit_stdout' = Append(jit_stdout, Cell(rsi))
    /\ rax' = 1
    /\ rip' = rip + 2
    /\ UNCHANGED <<NatFrame, rdi, rsi, rdx, zf, stack, jit_memory, jit_stdin_pos>>

NatXorRax ==
    /\ Decodes(Enc_xor_rax_rax)
    /\ rax' = 0 /\ zf' = TRUE
    /\ rip' = rip + 3
    /\ UNCHANGED <<NatFrame, rdi, rsi, rdx, stack, jit_memory, jit_stdin_pos, jit_stdout>>

(* mov al, byte [rdi]: the low byte of rax *)
NatMovAl ==
    /\ Decodes(Enc_mov_al_rdi) /\ InTape(rdi)
    /\ rax' = (rax - (rax % 256)) + Cell(rdi)
    /\ rip' = rip + 2
    /\ UNCHANGED <<NatFrame, rdi, rsi, rdx, zf, stack, jit_memory, jit_stdin_pos, jit_stdout>>

NatTest ==
    /\ Decodes(Enc_test_rax_rax)
    /\ zf' = (rax = 0)
    /\ rip' = rip + 3
    /\ UNCHANGED <<NatFrame, rdi, rax, rsi, rdx, stack, jit_memory, jit_stdin_pos, jit_stdout>>

NatJe ==
    /\ Decodes(Enc_je)
    /\ rip' = IF zf THEN rip + 6 + Le32(byte_code, rip + 2) ELSE rip + 6
    /\ UNCHANGED <<NatFrame, rdi, rax, rsi, rdx, zf, stack, jit_memory, jit_stdin_pos, jit_stdout>>

NatJne ==
    /\ Decodes(Enc_jne)
    /\ rip' = IF ~zf THEN rip + 6 + Le32(byte_code, rip + 2) ELSE rip + 6
    /\ UNCHANGED <<NatFrame, rdi, rax, rsi, rdx, zf, stack, jit_memory, jit_stdin_pos, jit_stdout>>

(* ret with the stack as on entry: back in execute, then main.rs exits *)
NatRet ==
    /\ Decodes(Enc_ret) /\ stack = <<>>
    /\ phase' = "done"
    /\ UNCHANGED <<mode, panic, parseVars, intVars, stdin_data, jitVars, nativeVars>>

AccessesCell ==
    \/ Decodes(Enc_add_byte_rdi) \/ Decodes(Enc_sub_byte_rdi) \/ Decodes(Enc_mov_al_rdi)

(* An access outside the tape: there are no runtime checks, so the CPU     *)
(* touches whatever lies there.  The run is not followed further: it ends  *)
(* in a segmentation fault or goes on with unspecified data.               *)
NatWild ==
    /\ \/ AccessesCell /\ ~InTape(rdi)
       \/ Decodes(Enc_syscall) /\ ~InTape(rsi)
    /\ \E outcome \in {"SIGSEGV", "unspecified"} : Halt(outcome)
    /\ UNCHANGED <<mode, parseVars, intVars, stdin_data, jitVars, nativeVars>>

NextNative ==
    \/ Load
    \/ NatAddByte \/ NatSubByte \/ NatAddRdi \/ NatSubRdi
    \/ NatPushRdi \/ NatPopRdi \/ NatMovRax \/ NatMovRdi \/ NatMovRdx \/ NatMovRsiRdi
    \/ NatSyscallRead \/ NatSyscallWrite
    \/ NatXorRax \/ NatMovAl \/ NatTest \/ NatJe \/ NatJne \/ NatRet
    \/ NatWild

-----------------------------------------------------------------------------
(* Inputs *)

Alphabet == Significant \cup {"#"}

Strings(S, n) == UNION {[1..k -> S] : k \in 0..n}

ZeroMemory == [k \in 1..InitialMemoryLen |-> 0]

Runs(sources, inputs) == {[src |-> s, stdin |-> d] : s \in sources, d \in inputs}

InitWith(m, runs) ==
    /\ mode = m
    /\ phase = "parse" /\ panic = ""
    /\ \E r \in runs : src = r.src /\ stdin_data = r.stdin
    /\ pos = IterPos(src, 0) /\ current_char = IterChar(src, 0)
    /\ instructions = <<>> /\ jump_stack = <<>>
    /\ ip = 0 /\ mp = 0 /\ memory = ZeroMemory
    /\ stdin_pos = 0 /\ stdout = <<>>
    /\ i = 0 /\ byte_code = <<>>
    /\ jump_addresses = EmptyMap /\ backpatch_addresses = EmptyMap
    /\ backpatch_todo = {}
    /\ rip = 0 /\ rdi = 0 /\ rax = 0 /\ rsi = 0 /\ rdx = 0 /\ zf = FALSE
    /\ stack = <<>> /\ jit_memory = EmptyMap
    /\ jit_stdin_pos = 0 /\ jit_stdout = <<>>

InitParse == InitWith("parse", Runs(Strings(Alphabet, MaxSrcLen), {<<>>}))

SpecParse == InitParse /\ [][NextParse]_vars

StdinBytes == {0, 65, 200}

Stdins == Strings(StdinBytes, MaxStdin)

Run(c, n) == [k \in 1..n |-> c]

(* a^`+` `>` b^`+` `<` followed by the loop body *)
MoveSrc(a, b, body) == Run("+", a) \o <<">">> \o Run("+", b) \o <<"<">> \o body

MoveBodies == {<<"[", "-", ">", "+", "<", "]">>, <<"[", ">", "+", "<", "-", "]">>}

MoveAs == (1..MaxA) \cup {CellModulus - 1}

MoveBs == (0..MaxB) \cup {CellModulus - 1}

MoveSources == {MoveSrc(a, b, body) : a \in MoveAs, b \in MoveBs, body \in MoveBodies}

(* every run length of `+` up to the limit of the assert, printed; the     *)
(* runs of `>` that reach the end of the initial tape, then a cell access  *)
LongSources ==
    {Run("+", n) \o <<".">> : n \in 1..RunLimit}
    \cup {Run("+", RunLimit - 1) \o <<">", "<", "+", ".">>}
    \cup {Run(">", n) \o <<c>> : n \in {InitialMemoryLen - 1, InitialMemoryLen},
                                 c \in {"+", "-", ",", ".", "[", "<"}}
    \cup MoveSources

(* Loops nested three deep and side by side, counted I/O inside a loop,    *)
(* a clearing loop, a move loop and the one-byte echo                      *)
NestedSources ==
    {<<"[", "[", "[", "]", "]", "]">>,
     <<"[", "[", "]", "[", "]", "]">>,
     <<"+", "[", "[", "[", "-", "]", "]", "]">>,
     <<"+", "[", "-", "[", ">", ".", ".", "<", "]", ",", ",", ",", "]", ".">>,
     <<"+", "+", "[", "-", "]", ".">>,
     <<"+", "[", ">", "+", "<", "-", "]", ">", ".">>,
     <<",", "+", ".">>,
     <<",", "[", ".", "[", "-", "]", "]">>}

IntRuns ==
    Runs(Strings(Alphabet, MaxIntLen), Stdins) \cup Runs(LongSources, {<<>>, <<65>>})
    \cup Runs(NestedSources, Stdins)

InitInt == InitWith("int", IntRuns)

NextInt == NextParse \/ NextInterp

SpecInt == InitInt /\ [][NextInt]_vars

SpecIntLive == SpecInt /\ WF_vars(NextInt)

JitSources == Strings(Significant, MaxJitLen) \cup NestedSources

InitJit == InitWith("compile", Runs(JitSources, {<<>>}))

NextJit == NextParse \/ NextCompile

SpecJit == InitJit /\ [][NextJit]_vars

RunSources == Strings(Significant, MaxIntLen) \cup NestedSources

InitRun == InitWith("both", Runs(RunSources, Stdins)) \/ InitWith("jit", Runs(RunSources, Stdins))

NextRun == NextParse \/ NextInterp \/ NextCompile \/ NextNative

SpecRun == InitRun /\ [][NextRun]_vars

-----------------------------------------------------------------------------
(* Properties of parse_program (SpecParse) *)

IsOp(ins, k, op) == k \in 0..(Len(ins) - 1) /\ At(ins, k).op = op

Jumps == {"JumpIfZero", "JumpIfNotZero"}

BracketPairs(ins) ==
    \A k \in 0..(Len(ins) - 1) :
        /\ At(ins, k).op = "JumpIfZero" =>
              /\ IsOp(ins, At(ins, k).arg - 1, "JumpIfNotZero")
              /\ At(ins, At(ins, k).arg - 1).arg = k + 1
        /\ At(ins, k).op = "JumpIfNotZero" =>
              Cardinality({o \in 0..(Len(ins) - 1) :
                  IsOp(ins, o, "JumpIfZero") /\ At(ins, o).arg = k + 1
                  /\ At(ins, k).arg = o + 1}) = 1
        /\ At(ins, k).op \in Jumps => At(ins, k).arg \in 0..Len(ins)

Accepted == phase \notin {"parse", "halt"}

(* C1: every program parse_program returns satisfies the bracket-pair      *)
(* invariant: each JumpIfZero at i with target t has a JumpIfNotZero at    *)
(* t-1 with target i+1, each JumpIfNotZero is the partner of exactly one   *)
(* JumpIfZero, and every jump target lies in 0..len.                       *)
C1_BracketPairInvariant == Accepted => BracketPairs(instructions)

(* C2: when the end of the input is reached with a non-empty open-bracket  *)
(* stack, parse_program fails and no program is produced.                  *)
C2_UnmatchedOpenRejected ==
    (current_char = "None" /\ jump_stack # <<>>) => ~Accepted

(* Some `]` of the source has no earlier unmatched `[` *)
UnmatchedClose(s) ==
    \E j \in 1..Len(s) :
        /\ s[j] = "]"
        /\ \A o \in 1..(j - 1) : s[o] = "[" =>
              \E c \in (o + 1)..(j - 1) :
                  /\ s[c] = "]"
                  /\ Cardinality({k \in (o + 1)..(c - 1) : s[k] = "["})
                       = Cardinality({k \in (o + 1)..(c - 1) : s[k] = "]"})

(* C7: a `]` read while the open-bracket stack is empty ends parse_program *)
(* with a panic at once, whatever follows it, and no source holding such a *)
(* `]` ever yields a program.                                              *)
C7_UnmatchedCloseRejected ==
    [][/\ (phase = "parse" /\ current_char = "]" /\ jump_stack = <<>>)
            => (phase' = "halt" /\ panic' = "Stack underflow at {current_char}")
       /\ (phase' # "parse" /\ phase' # "halt") => ~UnmatchedClose(src)]_vars

C7_Witness ==
    /\ phase = "halt" /\ panic = "Stack underflow at {current_char}"
    /\ instructions # <<>> /\ pos < Len(src)

-----------------------------------------------------------------------------
(* Properties of execute_with_interpreter (SpecInt, SpecIntLive) *)

(* C3: each Output(n) appends exactly n bytes to stdout, each the current  *)
(* cell's value, for every cell value 0..255.                              *)
C3_OutputByteTransparent ==
    [][(Running("Output") /\ InBounds(memory, mp))
          => stdout' = stdout \o Run(At(memory, mp), Fetch.arg)]_vars

(* C4: Right extends the tape, so mp is always a valid index of it and no  *)
(* cell access fails.                                                      *)
C4_TapeGrows ==
    /\ phase = "interp" => InBounds(memory, mp)
    /\ panic # "index out of bounds"

(* The source is n `+` followed by one `.` *)
PlusRunDot(s, n) ==
    /\ n >= 1 /\ Len(s) = n + 1 /\ s[n + 1] = "."
    /\ \A k \in 1..n : s[k] = "+"

(* The source is 255 `+`, then `><`, then one more `+` and a `.` *)
SplitPlus256Dot(s) ==
    /\ Len(s) = RunLimit + 3
    /\ SubSeq(s, RunLimit, RunLimit + 3) = <<">", "<", "+", ".">>
    /\ \A k \in 1..(RunLimit - 1) : s[k] = "+"

(* C6 as stated: 256 `+` then `.` is parsed and interpreted, ends          *)
(* normally and writes the byte 0x00.                                      *)
C6_Run256PrintsZero ==
    PlusRunDot(src, RunLimit) => (phase # "halt" /\ (phase = "done" => stdout = <<0>>))

(* C6, amended: cell arithmetic is modulo 256, but a source run of 256 `+` *)
(* is rejected by parse_program's assert (no program, nothing written);    *)
(* 256 increments split into runs of at most 255 return the cell to 0 and  *)
(* the following `.` writes the byte 0x00.                                 *)
C6_Run256Rejected ==
    /\ (PlusRunDot(src, RunLimit) /\ phase # "parse") =>
          /\ phase = "halt" /\ panic = "assertion failed: count < 256"
          /\ instructions = <<>> /\ stdout = <<>>
    /\ (SplitPlus256Dot(src) /\ phase = "done") =>
          /\ At(memory, 0) = 0 /\ stdout = <<0>>
    /\ (phase = "done" /\ Len(src) <= RunLimit /\ PlusRunDot(src, Len(src) - 1)) =>
          At(memory, 0) = Len(src) - 1

C6_Witness == PlusRunDot(src, RunLimit) /\ phase = "halt"

MoveA(s) == CHOOSE a \in MoveAs : \E b \in MoveBs, body \in MoveBodies : s = MoveSrc(a, b, body)

MoveB(s) == CHOOSE b \in MoveBs : \E a \in MoveAs, body \in MoveBodies : s = MoveSrc(a, b, body)

MoveDone ==
    /\ src \in MoveSources
    /\ phase = "done" /\ ip = Len(instructions)
    /\ At(memory, 0) = 0
    /\ At(memory, 1) = (MoveA(src) + MoveB(src)) % CellModulus
    /\ stdout = <<>>

(* C8: interpreting a^`+` `>` b^`+` `<` and then `[->+<]` or `[>+<-]` from *)
(* a zeroed tape eventually reaches ip = len with tape[0] = 0,             *)
(* tape[1] = (a + b) mod 256 and nothing written.                          *)
C8_MoveLoopTerminates == (src \in MoveSources) ~> MoveDone

C8_Witness ==
    /\ MoveDone
    /\ MoveA(src) + MoveB(src) >= CellModulus

-----------------------------------------------------------------------------
(* Properties of jit_compile (SpecJit) *)

(* The bytes jit_compile emits for one instruction *)
NativeSize(in) ==
    CASE in.op = "Add" -> Len(AddCode(in.arg))
      [] in.op = "Sub" -> Len(SubCode(in.arg))
      [] in.op = "Right" -> Len(RightCode(in.arg))
      [] in.op = "Left" -> Len(LeftCode(in.arg))
      [] in.op = "Output" -> in.arg * Len(OutputBlock)
      [] in.op = "Input" -> in.arg * Len(InputBlock)
      [] in.op = "JumpIfZero" -> Len(JumpIfZeroCode)
      [] in.op = "JumpIfNotZero" -> Len(TestCode) + 6

(* The offset of the first native byte of IR instruction k *)
RECURSIVE NativeOffset(_, _)
NativeOffset(ins, k) ==
    IF k = 0 THEN 0 ELSE NativeOffset(ins, k - 1) + NativeSize(At(ins, k - 1))

(* The first displacement byte of the jump emitted for instruction k *)
DispSite(ins, k) == NativeOffset(ins, k) + Len(TestCode) + 2

JumpsLand(ins, code) ==
    \A k \in 0..(Len(ins) - 1) :
        At(ins, k).op \in Jumps =>
            Le32(code, DispSite(ins, k))
              = NativeOffset(ins, At(ins, k).arg) - (DispSite(ins, k) + 4)

JeSites(ins) == {DispSite(ins, k) : k \in {o \in 0..(Len(ins) - 1) : At(ins, o).op = "JumpIfZero"}}

(* The step rewrote exactly the four bytes at one je site still holding    *)
(* its placeholder                                                         *)
PatchesOneSite ==
    \E site \in JeSites(instructions) :
        /\ Le32(byte_code, site) = 0
        /\ Le32(byte_code', site) # 0
        /\ \A k \in 1..Len(byte_code) :
              k - 1 \notin site..(site + 3) => byte_code'[k] = byte_code[k]

(* C9: in the code jit_compile returns for a well-formed program every je  *)
(* and jne displacement lands on the first native byte of its target       *)
(* instruction, and every je placeholder is patched exactly once.          *)
C9_JumpsLandOnTargets ==
    [][BracketPairs(instructions) =>
         /\ (phase = "backpatch" /\ Len(byte_code') = Len(byte_code)
               /\ byte_code' # byte_code) => PatchesOneSite
         /\ (phase = "backpatch" /\ phase' \in {"done", "load"}) =>
               /\ JumpsLand(instructions, byte_code')
               /\ Len(byte_code') = NativeOffset(instructions, Len(instructions)) + 1]_vars

C9_Witness ==
    /\ mode = "compile" /\ phase = "done" /\ BracketPairs(instructions)
    /\ Cardinality(JeSites(instructions)) >= 3

SyscallSeq(number, fd) ==
    Enc_push_rdi
    \o Enc_mov_rax \o LeBytes(number)
    \o Enc_mov_rsi_rdi
    \o Enc_mov_rdi \o LeBytes(fd)
    \o Enc_mov_rdx \o LeBytes(1)
    \o Enc_syscall
    \o Enc_pop_rdi

(* C10 as stated: Output(n) and Input(n) each add exactly 27*n bytes.      *)
C10_Blocks27Bytes ==
    [][(Compiling("Output") \/ Compiling("Input"))
          => Len(byte_code') = Len(byte_code) + 27 * At(instructions, i).arg]_vars

(* C10, amended: Output(n) and Input(n) emit exactly n repetitions of the  *)
(* sequence push rdi; mov rax, number; mov rsi, rdi; mov rdi, fd;          *)
(* mov rdx, 1; syscall; pop rdi (write: 1, 1; read: 0, 0), which is 28     *)
(* bytes long, so each contributes exactly 28*n bytes.                     *)
C10_Blocks28Bytes ==
    [][/\ Compiling("Output") =>
            /\ byte_code' = byte_code \o Repeat(SyscallSeq(1, 1), At(instructions, i).arg)
            /\ Len(byte_code') = Len(byte_code) + 28 * At(instructions, i).arg
       /\ Compiling("Input") =>
            /\ byte_code' = byte_code \o Repeat(SyscallSeq(0, 0), At(instructions, i).arg)
            /\ Len(byte_code') = Len(byte_code) + 28 * At(instructions, i).arg]_vars

C10_Witness ==
    /\ phase = "compile" /\ i >= 1
    /\ At(instructions, i - 1).op = "Output" /\ At(instructions, i - 1).arg >= 2
    /\ Len(byte_code) >= 56

-----------------------------------------------------------------------------
(* Interpreter against JIT (SpecRun) *)

(* C5: when both back ends run a well-formed program to its end on the     *)
(* same stdin, inside the tape and without reading past the end of input,  *)
(* they have written the same bytes to stdout.                             *)
C5_BackEndsAgree ==
    (mode = "both" /\ phase = "done" /\ BracketPairs(instructions)
       /\ jit_stdin_pos = stdin_pos)
      => jit_stdout = stdout

=============================================================================
